---- MODULE Spec2Model ----
(***************************************************************************)
(* A model of the search orchestration of the Google Maps business         *)
(* scraper: GoogleMapsScraper.search and _search_subdivided_area           *)
(* (main.py), the PlaywrightScraper session and its extraction loop        *)
(* (playwright_scraper.py), SearchResult (business.py), subdivide_area     *)
(* (helpers.py) and the location gazetteer (settings.py).                  *)
(*                                                                         *)
(* Text is a sequence of one-character strings.  Coordinates are integers  *)
(* in units of 1/10000 degree.  An optional value is a record with a       *)
(* `some` field (Python's None is some = FALSE).                           *)
(***************************************************************************)
EXTENDS Integers, Sequences, FiniteSets, TLC

(***************************************************************************)
(* Bounds of the model.                                                    *)
(***************************************************************************)
\* longest feed (number of result items) one extraction pass can see
MaxFeed == 2
\* the page stops showing phone-bearing items once this many were appended
MaxExtracted == 6
\* the longest time one search_businesses call takes, in seconds
MaxElapsed == 1
\* the largest radius, in km, handed to subdivide_area on its own
MaxRadiusKm == 25
\* the longest phone text built from the alphabet
MaxPhoneLen == 3

(***************************************************************************)
(* Program constants (settings.py DEFAULT_CONFIG, playwright_scraper.py).  *)
(***************************************************************************)
default_radius == 5
subdivision_threshold == 20
max_results_per_query == 120
\* min(20, max_results // 5) in _extract_businesses
MaxScrolls == 20
ScrollDivisor == 5
\* the default centre (7.5, 80.7), also the district placeholder
PlaceholderLat == 75000
PlaceholderLng == 807000

(***************************************************************************)
(* Optional values.                                                        *)
(***************************************************************************)
NoneNum == [some |-> FALSE, v |-> 0]
SomeNum(n) == [some |-> TRUE, v |-> n]
NoneStr == [some |-> FALSE, s |-> <<>>]
SomeStr(t) == [some |-> TRUE, s |-> t]
NoneLoc ==
    [some |-> FALSE, latitude |-> 0, longitude |-> 0,
     city |-> NoneStr, district |-> NoneStr]
\* business.py Location(latitude, longitude, city, district)
Location(lat, lng, c, d) ==
    [some |-> TRUE, latitude |-> lat, longitude |-> lng, city |-> c, district |-> d]

(***************************************************************************)
(* settings.py: the gazetteer.                                             *)
(***************************************************************************)
major_cities ==
    << [name |-> <<"C", "o", "l", "o", "m", "b", "o">>, lat |-> 69271, lng |-> 798612],
       [name |-> <<"K", "a", "n", "d", "y">>, lat |-> 72906, lng |-> 806337],
       [name |-> <<"G", "a", "l", "l", "e">>, lat |-> 60535, lng |-> 802210],
       [name |-> <<"J", "a", "f", "f", "n", "a">>, lat |-> 96615, lng |-> 800255],
       [name |-> <<"B", "a", "t", "t", "i", "c", "a", "l", "o", "a">>, lat |-> 77170, lng |-> 817000] >>

districts ==
    << <<"A", "m", "p", "a", "r", "a">>,
       <<"A", "n", "u", "r", "a", "d", "h", "a", "p", "u", "r", "a">>,
       <<"B", "a", "d", "u", "l", "l", "a">>,
       <<"B", "a", "t", "t", "i", "c", "a", "l", "o", "a">>,
       <<"C", "o", "l", "o", "m", "b", "o">>,
       <<"G", "a", "l", "l", "e">>,
       <<"G", "a", "m", "p", "a", "h", "a">>,
       <<"H", "a", "m", "b", "a", "n", "t", "o", "t", "a">>,
       <<"J", "a", "f", "f", "n", "a">>,
       <<"K", "a", "l", "u", "t", "a", "r", "a">>,
       <<"K", "a", "n", "d", "y">>,
       <<"K", "e", "g", "a", "l", "l", "e">>,
       <<"K", "i", "l", "i", "n", "o", "c", "h", "c", "h", "i">>,
       <<"K", "u", "r", "u", "n", "e", "g", "a", "l", "a">>,
       <<"M", "a", "n", "n", "a", "r">>,
       <<"M", "a", "t", "a", "l", "e">>,
       <<"M", "a", "t", "a", "r", "a">>,
       <<"M", "o", "n", "a", "r", "a", "g", "a", "l", "a">>,
       <<"M", "u", "l", "l", "a", "i", "t", "i", "v", "u">>,
       <<"N", "u", "w", "a", "r", "a", " ", "E", "l", "i", "y", "a">>,
       <<"P", "o", "l", "o", "n", "n", "a", "r", "u", "w", "a">>,
       <<"P", "u", "t", "t", "a", "l", "a", "m">>,
       <<"R", "a", "t", "n", "a", "p", "u", "r", "a">>,
       <<"T", "r", "i", "n", "c", "o", "m", "a", "l", "e", "e">>,
       <<"V", "a", "v", "u", "n", "i", "y", "a">> >>

(***************************************************************************)
(* Text helpers: str.lower() and the substring test.                       *)
(***************************************************************************)
lower_char(c) ==
    CASE c = "A" -> "a"
      [] c = "B" -> "b"
      [] c = "C" -> "c"
      [] c = "D" -> "d"
      [] c = "E" -> "e"
      [] c = "F" -> "f"
      [] c = "G" -> "g"
      [] c = "H" -> "h"
      [] c = "I" -> "i"
      [] c = "J" -> "j"
      [] c = "K" -> "k"
      [] c = "L" -> "l"
      [] c = "M" -> "m"
      [] c = "N" -> "n"
      [] c = "O" -> "o"
      [] c = "P" -> "p"
      [] c = "Q" -> "q"
      [] c = "R" -> "r"
      [] c = "S" -> "s"
      [] c = "T" -> "t"
      [] c = "U" -> "u"
      [] c = "V" -> "v"
      [] c = "W" -> "w"
      [] c = "X" -> "x"
      [] c = "Y" -> "y"
      [] c = "Z" -> "z"
      [] OTHER -> c

lower(t) == [i \in 1..Len(t) |-> lower_char(t[i])]

\* needle occurs in hay as a contiguous run of characters
Contains(hay, needle) ==
    \E i \in 0..Len(hay) :
        /\ i + Len(needle) <= Len(hay)
        /\ \A k \in 1..Len(needle) : hay[i + k] = needle[k]

(***************************************************************************)
(* business.py: SearchParameters and SearchResult.                         *)
(***************************************************************************)
NoneErr == [some |-> FALSE, s |-> ""]
SomeErr(e) == [some |-> TRUE, s |-> e]

SearchParameters(q, loc, r, m) ==
    [query |-> q, location |-> loc, radius_km |-> r, max_results |-> m]

\* SearchResult(parameters=p): the dataclass defaults
SearchResult(p) ==
    [parameters |-> p, businesses |-> <<>>, total_found |-> 0,
     success |-> TRUE, error_message |-> NoneErr, search_time |-> 0]

\* add_business with total_found taken before the append
add_business_stale(res, b) ==
    [res EXCEPT !.businesses = Append(res.businesses, b),
                !.total_found = Len(res.businesses)]

\* SearchResult.add_business
add_business(res, b) ==
    [res EXCEPT !.businesses = Append(res.businesses, b),
                !.total_found = Len(Append(res.businesses, b))]

(***************************************************************************)
(* main.py: GoogleMapsScraper._process_location.                           *)
(* A location argument is [t, s, d, l]: t is the Python type ("none",      *)
(* "str", "dict", "Location"), s the text, d the mapping, l the Location.  *)
(***************************************************************************)
\* dict.get(k): the value, or None
DictGet(d, k) == IF k \in DOMAIN d THEN SomeNum(d[k]) ELSE NoneNum
DictGetStr(d, k) == IF k \in DOMAIN d THEN SomeStr(d[k]) ELSE NoneStr
\* Python's `a or b` on optional numbers: None and 0 are falsy
PyOr(a, b) == IF a.some /\ a.v # 0 THEN a ELSE b

\* index of the first name of the sequence equal to s ignoring case, or 0
FirstIndex(names, s) ==
    IF \E k \in 1..Len(names) : lower(names[k]) = lower(s)
    THEN CHOOSE k \in 1..Len(names) :
            /\ lower(names[k]) = lower(s)
            /\ \A j \in 1..(k - 1) : lower(names[j]) # lower(s)
    ELSE 0

\* a lookup that tries the districts before the major cities
process_location_str_districts_first(s) ==
    LET ci == FirstIndex([k \in 1..Len(major_cities) |-> major_cities[k].name], s)
        di == FirstIndex(districts, s)
    IN  IF di # 0
        THEN Location(PlaceholderLat, PlaceholderLng, NoneStr, SomeStr(districts[di]))
        ELSE IF ci # 0
        THEN Location(major_cities[ci].lat, major_cities[ci].lng,
                      SomeStr(major_cities[ci].name), NoneStr)
        ELSE NoneLoc

process_location_str(s) ==
    LET ci == FirstIndex([k \in 1..Len(major_cities) |-> major_cities[k].name], s)
        di == FirstIndex(districts, s)
    IN  IF ci # 0
        THEN Location(major_cities[ci].lat, major_cities[ci].lng,
                      SomeStr(major_cities[ci].name), NoneStr)
        ELSE IF di # 0
        THEN Location(PlaceholderLat, PlaceholderLng, NoneStr, SomeStr(districts[di]))
        ELSE NoneLoc

process_location_dict(d) ==
    LET lat == PyOr(DictGet(d, "lat"), DictGet(d, "latitude"))
        lng == PyOr(DictGet(d, "lng"), DictGet(d, "longitude"))
    IN  IF lat.some /\ lng.some
        THEN Location(lat.v, lng.v, DictGetStr(d, "city"), DictGetStr(d, "district"))
        ELSE NoneLoc

process_location(location) ==
    CASE location.t = "none" -> NoneLoc
      [] location.t = "Location" -> location.l
      [] location.t = "dict" -> process_location_dict(location.d)
      [] location.t = "str" -> process_location_str(location.s)
      [] OTHER -> NoneLoc

(***************************************************************************)
(* helpers.py: subdivide_area.  The module imports re, logging, random,    *)
(* time, typing, pathlib, json, csv, datetime and the models (lines 5-15)  *)
(* and never math, so the first statement past the early return, line 269  *)
(* (math.pi), raises NameError: the lattice of lines 273-288 is never      *)
(* computed.  The result is [raised, cells], a cell being <<lat, lng, r>>. *)
(***************************************************************************)
\* a subdivision whose single cell takes the cell radius instead of the given one
subdivide_area_max(center_lat, center_lng, radius_km, max_radius_km) ==
    IF radius_km <= max_radius_km
    THEN [raised |-> FALSE, cells |-> << <<center_lat, center_lng, max_radius_km>> >>]
    ELSE [raised |-> TRUE, cells |-> <<>>]

subdivide_area(center_lat, center_lng, radius_km, max_radius_km) ==
    IF radius_km <= max_radius_km
    THEN [raised |-> FALSE, cells |-> << <<center_lat, center_lng, radius_km>> >>]
    ELSE [raised |-> TRUE, cells |-> <<>>]

(***************************************************************************)
(* helpers.py and business.py: phone numbers.  A phone text is a sequence  *)
(* of one-character strings.                                               *)
(***************************************************************************)
Digits == {"0", "1", "2", "3", "4", "5", "6", "7", "8", "9"}
Plus94 == <<"+", "9", "4">>
StartsWith(t, p) == Len(t) >= Len(p) /\ SubSeq(t, 1, Len(p)) = p

\* ''.join(filter(lambda x: x.isdigit() or x == '+', ...))
KeepDialable(t) == SelectSeq(t, LAMBDA c : c \in Digits \/ c = "+")

\* a normalization that prepends +94 to whatever does not start with 0
normalize_prepend(phone) ==
    LET number == KeepDialable(phone)
    IN  IF StartsWith(number, <<"0">>)
        THEN Plus94 \o Tail(number)
        ELSE Plus94 \o number

\* helpers.py lines 45-52 and 69-75: strip, then rewrite to international format
normalize(phone) ==
    LET number == KeepDialable(phone)
    IN  IF StartsWith(number, <<"0">>)
        THEN Plus94 \o Tail(number)
        ELSE IF ~StartsWith(number, <<"+">>)
        THEN Plus94 \o number
        ELSE number

\* business.py lines 40-50: PhoneNumber.__post_init__
post_init(number) ==
    LET stripped == KeepDialable(number)
    IN  IF StartsWith(stripped, <<"0">>)
        THEN Plus94 \o Tail(stripped)
        ELSE IF ~StartsWith(stripped, <<"+">>)
        THEN Plus94 \o stripped
        ELSE stripped

NoneRegion == [some |-> FALSE, s |-> ""]
SomeRegion(r) == [some |-> TRUE, s |-> r]
PhoneNumber(number, is_mobile, is_validated, region) ==
    [number |-> post_init(number), is_mobile |-> is_mobile,
     is_validated |-> is_validated, region |-> region]

mobile_prefixes == {<<"7", "0">>, <<"7", "1">>, <<"7", "2">>, <<"7", "4">>, <<"7", "5">>, <<"7", "6">>, <<"7", "7">>, <<"7", "8">>}
landline_regions ==
    {[code |-> <<"1", "1">>, region |-> "Colombo"],
     [code |-> <<"3", "3">>, region |-> "Gampaha"],
     [code |-> <<"3", "4">>, region |-> "Kalutara"],
     [code |-> <<"8", "1">>, region |-> "Kandy"],
     [code |-> <<"6", "6">>, region |-> "Matale"],
     [code |-> <<"5", "2">>, region |-> "Nuwara Eliya"],
     [code |-> <<"9", "1">>, region |-> "Galle"],
     [code |-> <<"4", "1">>, region |-> "Matara"],
     [code |-> <<"4", "7">>, region |-> "Hambantota"],
     [code |-> <<"2", "1">>, region |-> "Jaffna/Kilinochchi"],
     [code |-> <<"2", "3">>, region |-> "Mannar"],
     [code |-> <<"2", "4">>, region |-> "Vavuniya/Mullaitivu"],
     [code |-> <<"6", "5">>, region |-> "Batticaloa"],
     [code |-> <<"6", "3">>, region |-> "Ampara"],
     [code |-> <<"2", "6">>, region |-> "Trincomalee"],
     [code |-> <<"3", "7">>, region |-> "Kurunegala"],
     [code |-> <<"3", "2">>, region |-> "Puttalam"],
     [code |-> <<"2", "5">>, region |-> "Anuradhapura"],
     [code |-> <<"2", "7">>, region |-> "Polonnaruwa"],
     [code |-> <<"5", "5">>, region |-> "Badulla/Monaragala"],
     [code |-> <<"4", "5">>, region |-> "Ratnapura"],
     [code |-> <<"3", "5">>, region |-> "Kegalle"]}

\* a validation that takes every code that begins with 7 for a mobile code
validate_sri_lankan_phone_seven(phone) ==
    LET number == normalize(phone)
    IN  IF ~(StartsWith(number, Plus94) /\ Len(number) = 12)
        THEN [is_valid |-> FALSE, is_mobile |-> FALSE, region |-> NoneRegion,
              normalized |-> <<>>, local_format |-> <<>>]
        ELSE LET prefix == SubSeq(number, 4, 5)
                 known == {e \in landline_regions : e.code = prefix}
             IN  [is_valid |-> TRUE,
                  is_mobile |-> prefix[1] = "7",
                  region |-> IF known = {}
                             THEN NoneRegion
                             ELSE SomeRegion((CHOOSE e \in known : TRUE).region),
                  normalized |-> number,
                  local_format |-> <<"0">> \o SubSeq(number, 4, Len(number))]

\* validate_sri_lankan_phone: (is_valid, metadata)
validate_sri_lankan_phone(phone) ==
    LET number == normalize(phone)
    IN  IF ~(StartsWith(number, Plus94) /\ Len(number) = 12)
        THEN [is_valid |-> FALSE, is_mobile |-> FALSE, region |-> NoneRegion,
              normalized |-> <<>>, local_format |-> <<>>]
        ELSE LET prefix == SubSeq(number, 4, 5)
                 known == {e \in landline_regions : e.code = prefix}
             IN  [is_valid |-> TRUE,
                  is_mobile |-> prefix \in mobile_prefixes,
                  region |-> IF known = {}
                             THEN NoneRegion
                             ELSE SomeRegion((CHOOSE e \in known : TRUE).region),
                  normalized |-> number,
                  local_format |-> <<"0">> \o SubSeq(number, 4, Len(number))]

(***************************************************************************)
(* helpers.py lines 21-39: the pattern and re.findall.  The pattern is     *)
(* (?:\+94|0) followed by the first alternative that matches among         *)
(* 7[0-2,4-8]\d{7}, [1-9][0-9]\d{6} and \d{9}; the class [0-2,4-8] holds   *)
(* the comma.  MatchLen is the length of the match that starts at pos, 0   *)
(* when there is none.                                                     *)
(***************************************************************************)
MobileSecond == {"0", "1", "2", ",", "4", "5", "6", "7", "8"}
AllDigits(text, a, b) == b <= Len(text) /\ \A k \in a..b : text[k] \in Digits
PrefixLen(text, pos) ==
    IF text[pos] = "0"
    THEN 1
    ELSE IF pos + 2 <= Len(text) /\ SubSeq(text, pos, pos + 2) = Plus94
    THEN 3
    ELSE 0
MatchLen(text, pos) ==
    LET p == PrefixLen(text, pos)
        q == pos + p
    IN  IF p = 0
        THEN 0
        ELSE IF /\ q + 1 <= Len(text)
                /\ text[q] = "7"
                /\ text[q + 1] \in MobileSecond
                /\ AllDigits(text, q + 2, q + 8)
        THEN p + 9
        ELSE IF /\ q + 1 <= Len(text)
                /\ text[q] \in Digits \ {"0"}
                /\ text[q + 1] \in Digits
                /\ AllDigits(text, q + 2, q + 7)
        THEN p + 8
        ELSE IF AllDigits(text, q, q + 8)
        THEN p + 9
        ELSE 0

\* re.findall: the matches from left to right, not overlapping
RECURSIVE findall(_, _)
findall(text, pos) ==
    IF pos > Len(text)
    THEN <<>>
    ELSE LET n == MatchLen(text, pos)
         IN  IF n > 0
             THEN <<SubSeq(text, pos, pos + n - 1)>> \o findall(text, pos + n)
             ELSE findall(text, pos + 1)

\* extract_phone_numbers: every match, cleaned and normalized (lines 41-56)
extract_phone_numbers(text) ==
    LET matches == findall(text, 1)
    IN  [k \in 1..Len(matches) |-> normalize(matches[k])]

(***************************************************************************)
(* The result items the page can show.                                     *)
(***************************************************************************)
\* phone button texts: a mobile number in national writing, one in
\* international writing, and a Colombo landline
TextMobile == <<"0", "7", "1", "2", "3", "4", "5", "6", "7", "8">>
TextMobileIntl == <<"+", "9", "4", "7", "7", "1", "2", "3", "4", "5", "6", "7">>
TextLandline == <<"0", "1", "1", "2", "3", "4", "5", "6", "7", "8">>
\* two listings named "A" that differ in their details, one named "a", and
\* one whose only number is the landline
Items ==
    {[name |-> <<"A">>, tag |-> 1, phone_text |-> TextMobile],
     [name |-> <<"A">>, tag |-> 2, phone_text |-> TextMobileIntl],
     [name |-> <<"a">>, tag |-> 1, phone_text |-> TextMobile],
     [name |-> <<"a">>, tag |-> 2, phone_text |-> TextLandline]}
\* a page of six phone-bearing listings with six different names
LongFeed ==
    [k \in 1..6 |->
        [name |-> << <<"A">>, <<"a">>, <<"B">>, <<"C">>, <<"D">>, <<"E">> >>[k],
         tag |-> 1, phone_text |-> TextMobile]]

(***************************************************************************)
(* playwright_scraper.py: the extraction helpers.  A feed item is          *)
(* [name, tag, phone_text]: the title text, the rest of the detail panel   *)
(* and the text of the phone button.  A Business is [name, tag,            *)
(* phone_numbers].                                                         *)
(***************************************************************************)
\* _extract_business_details lines 370-380: the candidates that validate
RECURSIVE validated_phones(_)
validated_phones(phone_numbers) ==
    IF phone_numbers = <<>>
    THEN <<>>
    ELSE LET v == validate_sri_lankan_phone(Head(phone_numbers))
             rest == validated_phones(Tail(phone_numbers))
         IN  IF v.is_valid
             THEN <<PhoneNumber(v.normalized, v.is_mobile, TRUE, v.region)>> \o rest
             ELSE rest

\* lines 307, 317 and 364-380: the Business of an item
Business(item) ==
    [name |-> item.name, tag |-> item.tag,
     phone_numbers |-> validated_phones(extract_phone_numbers(item.phone_text))]

\* the Business of each item the page can show
BusinessOfItem ==
    [item \in Items \cup {LongFeed[k] : k \in 1..Len(LongFeed)} |-> Business(item)]

\* an extraction that appends every item, with or without phone number
RECURSIVE extract_visible_businesses_all(_, _)
extract_visible_businesses_all(result_items, businesses) ==
    IF result_items = <<>>
    THEN businesses
    ELSE extract_visible_businesses_all(Tail(result_items),
                                        Append(businesses, BusinessOfItem[Head(result_items)]))

\* _extract_visible_businesses: append each item that has a phone number
RECURSIVE extract_visible_businesses(_, _)
extract_visible_businesses(result_items, businesses) ==
    IF result_items = <<>>
    THEN businesses
    ELSE LET business == BusinessOfItem[Head(result_items)]
             next == IF business.phone_numbers # <<>>
                     THEN Append(businesses, business)
                     ELSE businesses
         IN  extract_visible_businesses(Tail(result_items), next)

Min(a, b) == IF a <= b THEN a ELSE b
Max(a, b) == IF a >= b THEN a ELSE b

\* scrolls_needed = min(20, max_results // 5)
scrolls_needed(max_results) == Min(MaxScrolls, max_results \div ScrollDivisor)

\* the scroll loop stops after a pass: cap reached or nothing new
StopScrolling(len_after, len_before, max_results) ==
    len_after >= max_results \/ len_after = len_before

\* businesses[:max_results], Python slice semantics
SlicePrefix(seq, n) ==
    IF n >= 0
    THEN SubSeq(seq, 1, Min(n, Len(seq)))
    ELSE SubSeq(seq, 1, Max(0, Len(seq) + n))

\* search_businesses lines 222-224: add every extracted business to the result
RECURSIVE add_all(_, _)
add_all(res, bs) ==
    IF bs = <<>> THEN res ELSE add_all(add_business(res, Head(bs)), Tail(bs))

\* search_businesses lines 228-231: the except branch
fail_result(res, e) == [res EXCEPT !.success = FALSE, !.error_message = SomeErr(e)]

(***************************************************************************)
(* main.py: _search_subdivided_area, the per-cell pieces.                  *)
(***************************************************************************)
\* lines 217-231: the parameters of one cell
SubParams(p, cell) ==
    SearchParameters(
        p.query,
        Location(cell[1], cell[2],
                 IF p.location.some THEN p.location.city ELSE NoneStr,
                 IF p.location.some THEN p.location.district ELSE NoneStr),
        cell[3],
        p.max_results)

\* the duplicate test comparing whole businesses instead of names
IsDuplicate_whole(bs, b) == \E k \in 1..Len(bs) : bs[k] = b

\* line 243: any(b.name == business.name for b in combined_result.businesses)
IsDuplicate(bs, b) == \E k \in 1..Len(bs) : bs[k].name = b.name

\* lines 241-244: merge one cell's businesses into the combined result
\* a merge that puts each new business in front of the ones already held
RECURSIVE MergeCell_front(_, _)
MergeCell_front(combined, bs) ==
    IF bs = <<>>
    THEN combined
    ELSE MergeCell_front(
            IF ~IsDuplicate(combined.businesses, Head(bs))
            THEN [combined EXCEPT !.businesses = <<Head(bs)>> \o @,
                                  !.total_found = Len(combined.businesses) + 1]
            ELSE combined,
            Tail(bs))

RECURSIVE MergeCell(_, _)
MergeCell(combined, bs) ==
    IF bs = <<>>
    THEN combined
    ELSE MergeCell(
            IF ~IsDuplicate(combined.businesses, Head(bs))
            THEN add_business(combined, Head(bs))
            ELSE combined,
            Tail(bs))

\* line 250: len(combined_result.businesses) >= params.max_results
CapReached(count, max_results) == count >= max_results

\* the routing test with >= in place of >
NeedsSubdivision_ge(radius_km) == radius_km >= subdivision_threshold

\* line 107: radius_km > subdivision_threshold
NeedsSubdivision(radius_km) == radius_km > subdivision_threshold

(***************************************************************************)
(* The state of one request.                                               *)
(***************************************************************************)
VARIABLES
    entry,            \* the method the caller invoked: "search" or "_search_subdivided_area"
    args,             \* the caller's arguments [query, location, radius_km, max_results]
    params,           \* the SearchParameters the request works with
    mode,             \* "none", "single" (lines 111-122) or "multi" (_search_subdivided_area)
    pc,               \* the control position
    combined_result,  \* _search_subdivided_area: combined_result
    subdivisions,     \* _search_subdivided_area: the cells
    i,                \* _search_subdivided_area: the cell being searched, from 1
    browser,          \* PlaywrightScraper.browser of the current scraper: "none" or "open"
    result,           \* search_businesses: result
    businesses,       \* _extract_businesses: businesses
    scroll,           \* _extract_businesses: passes of the scroll loop completed
    outcome,          \* "pending", "returned" or "raised"
    ret,              \* the SearchResult returned to the caller
    exc,              \* the exception that escaped to the caller
    starts,           \* history: calls of PlaywrightScraper.start
    calls,            \* history: the parameters of each search_businesses call
    launched,         \* history: browsers launched
    closed,           \* history: browsers closed
    partial,          \* history: the businesses list at the moment search_businesses failed
    stream,           \* history: the businesses of the cell results, in processing order
    elapsed,          \* history: the time spent in search_businesses calls, summed
    fn,               \* a helper function called on its own: its name, or "none"
    fn_args,          \* the arguments of that call
    fn_value          \* the value it returned

vars ==
    <<entry, args, params, mode, pc, combined_result, subdivisions, i, browser,
      result, businesses, scroll, outcome, ret, exc, starts, calls, launched,
      closed, partial, stream, elapsed, fn, fn_args, fn_value>>

(***************************************************************************)
(* The inputs.                                                             *)
(***************************************************************************)
EmptyDict == [k \in {} |-> 0]
StrArg(s) == [t |-> "str", s |-> s, d |-> EmptyDict, l |-> NoneLoc]
DictArg(d) == [t |-> "dict", s |-> <<>>, d |-> d, l |-> NoneLoc]
LocationArg(l) == [t |-> "Location", s |-> <<>>, d |-> EmptyDict, l |-> l]
NoneArg == [t |-> "none", s |-> <<>>, d |-> EmptyDict, l |-> NoneLoc]

TextCafe == <<"c", "a", "f", "e">>
TextFoo == <<"F", "o", "o">>
TextFooCafe == <<"F", "o", "o", " ", "c", "a", "f", "e">>
TextColomboLower == <<"c", "o", "l", "o", "m", "b", "o">>
TextGampaha == <<"G", "a", "m", "p", "a", "h", "a">>
TextKandy == <<"K", "a", "n", "d", "y">>

Queries == {<<>>, TextCafe, TextFooCafe}

KandyDict ==
    [k \in {"lat", "lng", "city"} |->
        CASE k = "lat" -> 72906
          [] k = "lng" -> 806337
          [] OTHER -> TextKandy]

KandyLocation == Location(72906, 806337, SomeStr(TextKandy), NoneStr)

LocationArgs ==
    {NoneArg, StrArg(TextColomboLower), StrArg(TextGampaha), StrArg(TextFoo),
     DictArg(KandyDict), LocationArg(KandyLocation)}

RadiusArgs == {NoneNum, SomeNum(0), SomeNum(20), SomeNum(21), SomeNum(30)}
MaxResultsArgs == {NoneNum, SomeNum(0), SomeNum(1), SomeNum(5), SomeNum(10)}

RECURSIVE SeqsUpTo(_, _)
SeqsUpTo(S, n) ==
    IF n = 0
    THEN {<<>>}
    ELSE LET shorter == SeqsUpTo(S, n - 1)
         IN  shorter \cup {Append(s, x) : s \in {q \in shorter : Len(q) = n - 1}, x \in S}
Feeds == SeqsUpTo(Items, MaxFeed) \cup {SubSeq(LongFeed, 1, 5), LongFeed}
Errors == {"Could not find search box", "Timeout"}

EmptyParams == SearchParameters(<<>>, NoneLoc, 0, 0)
NoResult == SearchResult(EmptyParams)

\* the requests: the numbers vary under a fixed text, or the texts under fixed numbers
NumbersVaried(a) == a.query = TextCafe /\ a.location = NoneArg
TextsVaried(a) == a.radius_km \in {NoneNum, SomeNum(20)} /\ a.max_results = SomeNum(5)
Requests ==
    {a \in [query : Queries, location : LocationArgs,
            radius_km : RadiusArgs, max_results : MaxResultsArgs] :
        NumbersVaried(a) \/ TextsVaried(a)}

\* nothing has run yet
Idle ==
    /\ params = EmptyParams
    /\ mode = "none"
    /\ pc = "call"
    /\ combined_result = NoResult
    /\ subdivisions = <<>>
    /\ i = 0
    /\ browser = "none"
    /\ result = NoResult
    /\ businesses = <<>>
    /\ scroll = 0
    /\ outcome = "pending"
    /\ ret = NoResult
    /\ exc = ""
    /\ starts = 0
    /\ calls = <<>>
    /\ launched = 0
    /\ closed = 0
    /\ partial = <<>>
    /\ stream = <<>>
    /\ elapsed = 0
    /\ fn = "none"
    /\ fn_args = <<>>
    /\ fn_value = <<>>

Init ==
    /\ entry \in {"search", "_search_subdivided_area"}
    /\ args \in Requests
    \* a direct caller of _search_subdivided_area hands it a SearchParameters
    /\ entry = "_search_subdivided_area" =>
          /\ args.location.t \in {"none", "Location"}
          /\ args.radius_km.some
          /\ args.max_results.some
    /\ Idle

(***************************************************************************)
(* main.py: the orchestrator.                                              *)
(***************************************************************************)
\* _search_subdivided_area lines 193-211: the combined result, the centre,
\* the subdivision.  A NameError of subdivide_area escapes to the caller.
EnterSubdivided(p) ==
    LET center_lat == IF p.location.some THEN p.location.latitude ELSE PlaceholderLat
        center_lng == IF p.location.some THEN p.location.longitude ELSE PlaceholderLng
        subs == subdivide_area(center_lat, center_lng, p.radius_km, subdivision_threshold)
    IN  /\ mode' = "multi"
        /\ combined_result' = SearchResult(p)
        /\ subdivisions' = subs.cells
        /\ IF subs.raised
           THEN /\ outcome' = "raised"
                /\ exc' = "NameError"
                /\ ret' = ret
                /\ pc' = "done"
                /\ i' = 0
           ELSE IF subs.cells = <<>>
           THEN /\ outcome' = "returned"
                /\ ret' = SearchResult(p)
                /\ exc' = exc
                /\ pc' = "done"
                /\ i' = 0
           ELSE /\ outcome' = outcome
                /\ ret' = ret
                /\ exc' = exc
                /\ pc' = "enter"
                /\ i' = 1

\* search lines 87-113: defaults, location, parameters, routing
Search ==
    /\ entry = "search"
    /\ pc = "call"
    /\ LET radius_km == IF args.radius_km.some THEN args.radius_km.v ELSE default_radius
           max_results == IF args.max_results.some
                          THEN args.max_results.v
                          ELSE max_results_per_query
           location_obj == process_location(args.location)
           p == SearchParameters(args.query, location_obj, radius_km, max_results)
       IN  /\ params' = p
           /\ IF NeedsSubdivision(radius_km)
              THEN EnterSubdivided(p)
              ELSE /\ mode' = "single"
                   /\ pc' = "enter"
                   /\ UNCHANGED <<combined_result, subdivisions, i, outcome, ret, exc>>
    /\ UNCHANGED <<fn, fn_args, fn_value, elapsed, entry, args, browser, result, businesses, scroll, starts, calls,
                   launched, closed, partial, stream>>

\* _search_subdivided_area called on a SearchParameters of the caller's own
SearchSubdividedArea ==
    /\ entry = "_search_subdivided_area"
    /\ pc = "call"
    /\ LET p == SearchParameters(args.query, args.location.l,
                                 args.radius_km.v, args.max_results.v)
       IN  /\ params' = p
           /\ EnterSubdivided(p)
    /\ UNCHANGED <<fn, fn_args, fn_value, elapsed, entry, args, browser, result, businesses, scroll, starts, calls,
                   launched, closed, partial, stream>>

\* the parameters handed to search_businesses: params (line 120) or sub_params (line 238)
CurrentParams ==
    IF mode = "multi" THEN SubParams(params, subdivisions[i]) ELSE params

(***************************************************************************)
(* playwright_scraper.py: the session.  `with PlaywrightScraper(...)`      *)
(* runs __enter__, which calls start (lines 46-101).  No try surrounds the *)
(* with statement in main.py, and __exit__ is not run when __enter__       *)
(* raises, so a failure of start escapes to the caller of search.          *)
(***************************************************************************)
\* start succeeds: browser, context and page exist
EnterStarted ==
    /\ pc = "enter"
    /\ starts' = starts + 1
    /\ launched' = launched + 1
    /\ browser' = "open"
    /\ pc' = "search_businesses"
    /\ UNCHANGED <<fn, fn_args, fn_value, elapsed, entry, args, params, mode, combined_result, subdivisions, i,
                   result, businesses, scroll, outcome, ret, exc, calls, closed, partial, stream>>

\* start raises at line 59 or 75: no browser was launched
EnterLaunchFails ==
    /\ pc = "enter"
    /\ starts' = starts + 1
    /\ outcome' = "raised"
    /\ exc' = "launch failed"
    /\ pc' = "done"
    /\ UNCHANGED <<fn, fn_args, fn_value, elapsed, entry, args, params, mode, combined_result, subdivisions, i, browser,
                   result, businesses, scroll, ret, calls, launched, closed, partial, stream>>

\* start raises at lines 84-99, after self.browser was assigned at line 75
EnterContextFails ==
    /\ pc = "enter"
    /\ starts' = starts + 1
    /\ launched' = launched + 1
    /\ browser' = "open"
    /\ outcome' = "raised"
    /\ exc' = "context failed"
    /\ pc' = "done"
    /\ UNCHANGED <<fn, fn_args, fn_value, elapsed, entry, args, params, mode, combined_result, subdivisions, i,
                   result, businesses, scroll, ret, calls, closed, partial, stream>>

(***************************************************************************)
(* playwright_scraper.py: search_businesses.                               *)
(***************************************************************************)
\* lines 171-172: search_businesses starts a browser only when none is open
NeedsStart_always(b) == TRUE

NeedsStart(b) == b = "none"

\* lines 171-217 run through: the page is loaded and the query typed
SearchBusinessesNavigated ==
    /\ pc = "search_businesses"
    /\ starts' = IF NeedsStart(browser) THEN starts + 1 ELSE starts
    /\ launched' = IF NeedsStart(browser) THEN launched + 1 ELSE launched
    /\ browser' = "open"
    /\ calls' = Append(calls, CurrentParams)
    /\ result' = SearchResult(CurrentParams)
    /\ businesses' = <<>>
    /\ scroll' = 0
    /\ pc' = "extract"
    /\ UNCHANGED <<fn, fn_args, fn_value, elapsed, entry, args, params, mode, combined_result, subdivisions, i,
                   outcome, ret, exc, closed, partial, stream>>

\* lines 178-207 raise (navigation, no search box): the except branch, lines 228-236
SearchBusinessesNavigateFails ==
    /\ pc = "search_businesses"
    /\ starts' = IF NeedsStart(browser) THEN starts + 1 ELSE starts
    /\ launched' = IF NeedsStart(browser) THEN launched + 1 ELSE launched
    /\ browser' = "open"
    /\ \E e \in Errors :
          result' = fail_result(SearchResult(CurrentParams), e)
    /\ calls' = Append(calls, CurrentParams)
    /\ businesses' = <<>>
    /\ scroll' = 0
    /\ partial' = <<>>
    /\ pc' = "finish"
    /\ UNCHANGED <<fn, fn_args, fn_value, elapsed, entry, args, params, mode, combined_result, subdivisions, i,
                   outcome, ret, exc, closed, stream>>

\* the feed one pass can show: the page holds at most MaxExtracted phone-bearing items
FeedAllowed(after) == Len(after) <= MaxExtracted

InScrollLoop ==
    /\ pc = "extract"
    /\ scroll < scrolls_needed(result.parameters.max_results)

\* lines 266-268: no results container, break
ExtractNoFeed ==
    /\ InScrollLoop
    /\ pc' = "extracted"
    /\ UNCHANGED <<fn, fn_args, fn_value, elapsed, entry, args, params, mode, combined_result, subdivisions, i, browser,
                   result, businesses, scroll, outcome, ret, exc, starts, calls,
                   launched, closed, partial, stream>>

\* lines 266-279: a pass that ends the loop (cap reached or nothing new)
ExtractPassStop ==
    /\ InScrollLoop
    /\ \E feed \in Feeds :
          LET after == extract_visible_businesses(feed, businesses)
          IN  /\ FeedAllowed(after)
              /\ StopScrolling(Len(after), Len(businesses), result.parameters.max_results)
              /\ businesses' = after
    /\ pc' = "extracted"
    /\ UNCHANGED <<fn, fn_args, fn_value, elapsed, entry, args, params, mode, combined_result, subdivisions, i, browser,
                   result, scroll, outcome, ret, exc, starts, calls, launched, closed,
                   partial, stream>>

\* lines 266-283: a pass followed by a scroll
ExtractPassScroll ==
    /\ InScrollLoop
    /\ \E feed \in Feeds :
          LET after == extract_visible_businesses(feed, businesses)
          IN  /\ FeedAllowed(after)
              /\ ~StopScrolling(Len(after), Len(businesses), result.parameters.max_results)
              /\ businesses' = after
    /\ scroll' = scroll + 1
    /\ UNCHANGED <<fn, fn_args, fn_value, elapsed, entry, args, params, mode, pc, combined_result, subdivisions, i,
                   browser, result, outcome, ret, exc, starts, calls, launched, closed,
                   partial, stream>>

\* lines 266-282: a pass whose scroll (page.evaluate, line 282) raises; the
\* exception leaves _extract_businesses and its local list, lines 228-236
ExtractPassScrollFails ==
    /\ InScrollLoop
    /\ \E feed \in Feeds, e \in Errors :
          LET after == extract_visible_businesses(feed, businesses)
          IN  /\ FeedAllowed(after)
              /\ ~StopScrolling(Len(after), Len(businesses), result.parameters.max_results)
              /\ businesses' = after
              /\ partial' = after
              /\ result' = fail_result(result, e)
    /\ pc' = "finish"
    /\ UNCHANGED <<fn, fn_args, fn_value, elapsed, entry, args, params, mode, combined_result, subdivisions, i, browser,
                   scroll, outcome, ret, exc, starts, calls, launched, closed, stream>>

\* lines 266 or 271 raise (query_selector on a dead page), lines 228-236
ExtractQueryFails ==
    /\ InScrollLoop
    /\ \E e \in Errors : result' = fail_result(result, e)
    /\ partial' = businesses
    /\ pc' = "finish"
    /\ UNCHANGED <<fn, fn_args, fn_value, elapsed, entry, args, params, mode, combined_result, subdivisions, i, browser,
                   businesses, scroll, outcome, ret, exc, starts, calls, launched, closed, stream>>

\* the loop is over: line 286 and lines 220-226, 234-236
ExtractReturn ==
    /\ \/ pc = "extracted"
       \/ /\ pc = "extract"
          /\ scroll >= scrolls_needed(result.parameters.max_results)
    /\ result' = add_all(result, SlicePrefix(businesses, result.parameters.max_results))
    /\ pc' = "finish"
    /\ UNCHANGED <<fn, fn_args, fn_value, elapsed, entry, args, params, mode, combined_result, subdivisions, i, browser,
                   businesses, scroll, outcome, ret, exc, starts, calls, launched, closed,
                   partial, stream>>

\* lines 233-236: the time from line 174 to line 234 goes into the result
SearchBusinessesReturn ==
    /\ pc = "finish"
    /\ \E d \in 0..MaxElapsed :
          /\ result' = [result EXCEPT !.search_time = d]
          /\ elapsed' = elapsed + d
    /\ pc' = "exit"
    /\ UNCHANGED <<fn, fn_args, fn_value, entry, args, params, mode, combined_result, subdivisions, i, browser,
                   businesses, scroll, outcome, ret, exc, starts, calls, launched, closed,
                   partial, stream>>

(***************************************************************************)
(* The end of the with block: __exit__ runs stop (lines 51-53, 103-110),   *)
(* then the caller goes on.                                                *)
(***************************************************************************)
\* search lines 119-122: return the collaborator's result
ExitSingle ==
    /\ pc = "exit"
    /\ mode = "single"
    /\ browser' = "none"
    /\ closed' = closed + 1
    /\ outcome' = "returned"
    /\ ret' = result
    /\ pc' = "done"
    /\ UNCHANGED <<fn, fn_args, fn_value, elapsed, entry, args, params, mode, combined_result, subdivisions, i, result,
                   businesses, scroll, exc, starts, calls, launched, partial, stream>>

\* the merge step with the cell's success flag and error message copied into
\* the combined result
ExitCell_copies ==
    /\ pc = "exit"
    /\ mode = "multi"
    /\ browser' = "none"
    /\ closed' = closed + 1
    /\ LET merged == [MergeCell(combined_result, result.businesses)
                         EXCEPT !.success = result.success,
                                !.error_message = result.error_message]
       IN  /\ combined_result' = merged
           /\ stream' = stream \o result.businesses
           /\ IF \/ CapReached(Len(merged.businesses), params.max_results)
                 \/ i = Len(subdivisions)
              THEN /\ outcome' = "returned"
                   /\ ret' = merged
                   /\ pc' = "done"
                   /\ i' = i
              ELSE /\ outcome' = outcome
                   /\ ret' = ret
                   /\ pc' = "enter"
                   /\ i' = i + 1
    /\ UNCHANGED <<fn, fn_args, fn_value, elapsed, entry, args, params, mode, subdivisions, result, businesses, scroll,
                   exc, starts, calls, launched, partial>>

\* _search_subdivided_area lines 237-254: merge, cap check, next cell or return
ExitCell ==
    /\ pc = "exit"
    /\ mode = "multi"
    /\ browser' = "none"
    /\ closed' = closed + 1
    /\ LET merged == MergeCell(combined_result, result.businesses)
       IN  /\ combined_result' = merged
           /\ stream' = stream \o result.businesses
           /\ IF \/ CapReached(Len(merged.businesses), params.max_results)
                 \/ i = Len(subdivisions)
              THEN /\ outcome' = "returned"
                   /\ ret' = merged
                   /\ pc' = "done"
                   /\ i' = i
              ELSE /\ outcome' = outcome
                   /\ ret' = ret
                   /\ pc' = "enter"
                   /\ i' = i + 1
    /\ UNCHANGED <<fn, fn_args, fn_value, elapsed, entry, args, params, mode, subdivisions, result, businesses, scroll,
                   exc, starts, calls, launched, partial>>

Next ==
    \/ Search
    \/ SearchSubdividedArea
    \/ EnterStarted
    \/ EnterLaunchFails
    \/ EnterContextFails
    \/ SearchBusinessesNavigated
    \/ SearchBusinessesNavigateFails
    \/ ExtractNoFeed
    \/ ExtractPassStop
    \/ ExtractPassScroll
    \/ ExtractPassScrollFails
    \/ ExtractQueryFails
    \/ ExtractReturn
    \/ SearchBusinessesReturn
    \/ ExitSingle
    \/ ExitCell

Spec == Init /\ [][Next]_vars

(***************************************************************************)
(* The helper functions called on their own, on inputs drawn from bounded  *)
(* sets: one call per behaviour, its arguments and value kept in fn_args   *)
(* and fn_value.                                                           *)
(***************************************************************************)
FnCenters == {<<0, 0>>, <<69271, 798612>>, <<-10000, 807000>>}
FnRadii == (-1)..MaxRadiusKm
FnMaxRadii == {default_radius, subdivision_threshold}

LatParts == {EmptyDict} \cup {k :> v : k \in {"lat", "latitude"}, v \in {0, 72906}}
LngParts == {EmptyDict} \cup {k :> v : k \in {"lng", "longitude"}, v \in {0, 806337}}
CityParts == {EmptyDict, "city" :> TextKandy}
DistrictParts == {EmptyDict, "district" :> TextGampaha}
FnDicts ==
    {a @@ b @@ c @@ d : a \in LatParts, b \in LngParts, c \in CityParts, d \in DistrictParts}
        \cup {("lat" :> 0) @@ ("latitude" :> 72906) @@ ("lng" :> 806337)}
FnNames ==
    {major_cities[k].name : k \in 1..Len(major_cities)}
        \cup {districts[k] : k \in 1..Len(districts)}
FnStrings ==
    FnNames \cup {lower(n) : n \in FnNames}
        \cup {<<>>, TextFoo, TextFooCafe, <<"C", "o", "l", "o", "m", "b", "o", " ">>}
FnLocations ==
    {NoneArg, LocationArg(KandyLocation)}
        \cup {StrArg(t) : t \in FnStrings} \cup {DictArg(d) : d \in FnDicts}

PhoneAlphabet == {"0", "7", "+", " "}
\* every two-digit code
FnCodes == {<<a, b>> : a \in Digits, b \in Digits}
FnTails == {<<"2", "3", "4", "5", "6", "7", "8">>, <<"2", "3", "4", "5", "6", "7">>}
FnPhones ==
    SeqsUpTo(PhoneAlphabet, MaxPhoneLen)
        \cup {p \o c \o t : p \in {Plus94, <<"0">>, <<>>, <<"9", "4">>}, c \in FnCodes, t \in FnTails}
        \cup {<<"0", "7", "1", " ", "2", "3", "4", " ", "5", "6", "7", "8">>,
              <<"+", "9", "4", "-", "7", "1", "-", "2", "3", "4", "5", "6", "7", "8">>}

\* texts of a page: the digits of a mobile number in groups, the same number
\* unbroken behind words, and two numbers in one text
TextCallUs ==
    <<"C", "a", "l", "l", " ", "u", "s", ":", " ", "0", "7", "1", " ", "2",
      "3", "4", " ", "5", "6", "7", "8">>
TextCallUsPlain ==
    <<"C", "a", "l", "l", " ", "u", "s", ":", " ", "0", "7", "1", "2", "3",
      "4", "5", "6", "7", "8">>
TextTwoNumbers ==
    <<"0", "7", "1", "2", "3", "4", "5", "6", "7", "8", " ", "/", " ", "+",
      "9", "4", "7", "7", "1", "2", "3", "4", "5", "6", "7">>
FnTexts == FnPhones \cup {TextCallUs, TextCallUsPlain, TextTwoNumbers}

FnInit ==
    /\ entry = "search"
    /\ args = [query |-> TextCafe, location |-> NoneArg,
               radius_km |-> NoneNum, max_results |-> NoneNum]
    /\ Idle

\* the call returns: what was called, on what, and its value
FnCall(name, arguments, value) ==
    /\ fn' = name
    /\ fn_args' = arguments
    /\ fn_value' = value
    /\ UNCHANGED <<entry, args, params, mode, pc, combined_result, subdivisions, i,
                   browser, result, businesses, scroll, outcome, ret, exc, starts, calls,
                   launched, closed, partial, stream, elapsed>>

CallSubdivideArea ==
    /\ fn = "none"
    /\ \E c \in FnCenters, r \in FnRadii, m \in FnMaxRadii :
           FnCall("subdivide_area", <<c[1], c[2], r, m>>, subdivide_area(c[1], c[2], r, m))

CallProcessLocation ==
    /\ fn = "none"
    /\ \E l \in FnLocations : FnCall("_process_location", l, process_location(l))

CallNormalize ==
    /\ fn = "none"
    /\ \E t \in FnPhones : FnCall("normalize", t, normalize(t))

CallValidate ==
    /\ fn = "none"
    /\ \E t \in FnPhones :
           FnCall("validate_sri_lankan_phone", t, validate_sri_lankan_phone(t))

CallPostInit ==
    /\ fn = "none"
    /\ \E t \in FnPhones : FnCall("PhoneNumber", t, post_init(t))

CallExtractPhoneNumbers ==
    /\ fn = "none"
    /\ \E t \in FnTexts : FnCall("extract_phone_numbers", t, extract_phone_numbers(t))

\* the phone loop of _extract_business_details on the text of the phone button
CallExtractBusinessDetails ==
    /\ fn = "none"
    /\ \E t \in FnTexts :
           FnCall("_extract_business_details", t,
                  validated_phones(extract_phone_numbers(t)))

FnNext ==
    \/ CallSubdivideArea
    \/ CallProcessLocation
    \/ CallNormalize
    \/ CallValidate
    \/ CallPostInit
    \/ CallExtractPhoneNumbers
    \/ CallExtractBusinessDetails

FnSpec == FnInit /\ [][FnNext]_vars

(***************************************************************************)
(* The claims.                                                             *)
(***************************************************************************)
UniqueNames(s) == {s[k].name : k \in 1..Len(s)}
StartFailed == exc \in {"launch failed", "context failed"}

\* the businesses of s that are the first of their name, in the order of s
RECURSIVE FirstOccurrences(_)
FirstOccurrences(s) ==
    IF s = <<>>
    THEN <<>>
    ELSE LET n == Len(s)
             init == FirstOccurrences(SubSeq(s, 1, n - 1))
         IN  IF \E j \in 1..(n - 1) : s[j].name = s[n].name
             THEN init
             ELSE Append(init, s[n])

\* C1: a subdivided search whose sessions all start ends by returning a
\* SearchResult; when the cell results held more than max_results unique names
\* it holds exactly max_results businesses and a cell was left unprocessed.
C1_ResultCap ==
    (mode = "multi" /\ pc = "done" /\ ~StartFailed) =>
        /\ outcome = "returned"
        /\ Cardinality(UniqueNames(stream)) > params.max_results =>
              /\ Len(ret.businesses) = params.max_results
              /\ i < Len(subdivisions)

\* C3: in a subdivided search no two businesses of the combined result have
\* the same name (names compared exactly, so "A" and "a" are different), and
\* the combined result is the first occurrence of each name in processing
\* order: a later business of the same name is dropped, not merged.
C3_Dedup ==
    mode = "multi" =>
        /\ combined_result.businesses = FirstOccurrences(stream)
        /\ \A j, k \in 1..Len(combined_result.businesses) :
              combined_result.businesses[j].name = combined_result.businesses[k].name
                  => j = k
        /\ outcome = "returned" => ret = combined_result

\* a returned combined result that met a second, different business of a name
\* it already held, and holds two names that differ only in case
C3_Witness ==
    /\ mode = "multi"
    /\ outcome = "returned"
    /\ \E j, k \in 1..Len(stream) :
          j < k /\ stream[j].name = stream[k].name /\ stream[j] # stream[k]
    /\ \E j, k \in 1..Len(ret.businesses) :
          /\ ret.businesses[j].name # ret.businesses[k].name
          /\ lower(ret.businesses[j].name) = lower(ret.businesses[k].name)

\* C4: total_found equals the number of businesses in every SearchResult, the
\* returned one as well as the ones under construction, in both modes and
\* after a failure of the collaborator.
TotalFoundOK(r) == r.total_found = Len(r.businesses)
C4_TotalFound == TotalFoundOK(ret) /\ TotalFoundOK(result) /\ TotalFoundOK(combined_result)

\* a combined result of two businesses was returned
C4_Witness ==
    /\ mode = "multi"
    /\ outcome = "returned"
    /\ Len(ret.businesses) >= 2

\* C5: in a subdivided search a failure of the collaborator, at session start
\* or during extraction, does not abort the search: no exception reaches the
\* caller once a cell is being searched.
C5_CellFailureNonFatal ==
    (mode = "multi" /\ starts > 0) => outcome # "raised"

\* C6: a single-cell search in which the collaborator failed, at session start
\* or during extraction, ends by returning a SearchResult with success = false
\* and the failure detail as error_message; no exception escapes.
C6_SingleFailureSurfaced ==
    (mode = "single" /\ pc = "done" /\ (StartFailed \/ ~result.success)) =>
        /\ outcome = "returned"
        /\ ~ret.success
        /\ ret.error_message.some

\* C7: the SearchResult a failed single-cell search returns holds the
\* businesses that were already extracted when the collaborator failed.
C7_PartialResultsSurvive ==
    (mode = "single" /\ outcome = "returned" /\ ~ret.success) =>
        ret.businesses = partial

\* C8: a search with radius_km <= 0, max_results <= 0 or an empty query starts
\* no collaborator session and makes no collaborator call.
InvalidRequest(a) ==
    \/ a.radius_km.some /\ a.radius_km.v <= 0
    \/ a.max_results.some /\ a.max_results.v <= 0
    \/ a.query = <<>>
C8_PreconditionRejection ==
    (entry = "search" /\ InvalidRequest(args)) => (starts = 0 /\ calls = <<>>)

\* C9: when the location argument is a text that resolves to no city and no
\* district, the query of every SearchParameters handed to the collaborator
\* contains that text.
C9_LocationTextKept ==
    (entry = "search" /\ args.location.t = "str"
        /\ ~process_location(args.location).some) =>
        \A k \in 1..Len(calls) : Contains(calls[k].query, args.location.s)

\* the radius and the parameters search works with, from the arguments
EffectiveRadius == IF args.radius_km.some THEN args.radius_km.v ELSE default_radius
EffectiveMaxResults ==
    IF args.max_results.some THEN args.max_results.v ELSE max_results_per_query
Assembled ==
    SearchParameters(args.query, process_location(args.location),
                     EffectiveRadius, EffectiveMaxResults)

\* C10 as stated: search is in multi-cell mode exactly when radius_km exceeds
\* the threshold, and a finished single-cell search opened exactly one session
\* and made exactly one search_businesses call, with the assembled parameters.
C10_Routing ==
    (entry = "search" /\ pc = "done") =>
        /\ (mode = "multi") <=> (EffectiveRadius > subdivision_threshold)
        /\ mode = "single" =>
              /\ starts = 1
              /\ calls = <<Assembled>>

\* C10 amended: search is in multi-cell mode exactly when radius_km exceeds the
\* threshold (equality is single-cell); a single-cell search calls start
\* exactly once and makes exactly one search_businesses call, with the
\* assembled parameters unchanged, when start succeeds, and none when start
\* raises.
C10_RoutingAmended ==
    (entry = "search" /\ pc # "call") =>
        /\ (mode = "multi") <=> (EffectiveRadius > subdivision_threshold)
        /\ (mode = "single") <=> (EffectiveRadius <= subdivision_threshold)
        /\ mode = "single" =>
              /\ params = Assembled
              /\ starts <= 1
              /\ calls \in {<<>>, <<Assembled>>}
              /\ pc = "done" =>
                    /\ starts = 1
                    /\ calls = IF StartFailed THEN <<>> ELSE <<Assembled>>

\* a search with radius_km equal to the threshold returned after one call
C10_Witness ==
    /\ entry = "search"
    /\ args.radius_km = SomeNum(subdivision_threshold)
    /\ mode = "single"
    /\ outcome = "returned"
    /\ starts = 1
    /\ Len(calls) = 1

(***************************************************************************)
(* C11: every search with radius_km = 30 under the threshold 20 and with   *)
(* max_results >= 1 enters multi-cell mode and makes more than one         *)
(* collaborator invocation, whatever the collaborator does.                *)
(***************************************************************************)
C11_Radius30ManyInvocations ==
    (/\ entry = "search"
     /\ args.radius_km = SomeNum(30)
     /\ EffectiveMaxResults >= 1
     /\ pc = "done") =>
        /\ mode = "multi"
        /\ Len(calls) > 1

(***************************************************************************)
(* C12: no overlapping extraction.  Throughout a search at most one        *)
(* collaborator session is open (a browser launched and not yet closed)    *)
(* and at most one search_businesses call is in flight; a session is       *)
(* started only when every earlier one has been stopped, so the session of *)
(* cell k is stopped before the session of cell k+1 is started.            *)
(***************************************************************************)
OpenSessions == launched - closed
InFlight == pc \in {"extract", "extracted"}
C12_NoOverlap ==
    /\ OpenSessions \in {0, 1}
    /\ pc = "enter" => OpenSessions = 0
    /\ pc \in {"search_businesses", "exit"} \/ InFlight => OpenSessions = 1 /\ browser = "open"
    /\ Len(calls) <= launched
    /\ InFlight => Len(calls) = launched

\* a cell's extraction is under way in its own session, after a pass that found something
C12_Witness ==
    /\ mode = "multi"
    /\ InFlight
    /\ businesses # <<>>
    /\ OpenSessions = 1

(***************************************************************************)
(* C13: guaranteed session release.  Once search has returned or raised,   *)
(* every browser that start launched has been closed by stop, also when    *)
(* start failed after the launch and when search_businesses failed.        *)
(***************************************************************************)
C13_SessionRelease ==
    outcome # "pending" =>
        /\ launched = closed
        /\ browser = "none"

(***************************************************************************)
(* C14: elapsed time covers the whole request.  The search_time of the     *)
(* result returned in multi-cell mode is at least the sum of the elapsed   *)
(* times of the cell invocations made; in single-cell mode it is the       *)
(* elapsed time of the one invocation.                                     *)
(***************************************************************************)
C14_SearchTime ==
    outcome = "returned" =>
        /\ mode = "multi" => ret.search_time >= elapsed
        /\ mode = "single" => ret.search_time = elapsed

(***************************************************************************)
(* C15: every Business of a SearchResult returned by search, in either     *)
(* mode, has at least one PhoneNumber, each of its PhoneNumbers has        *)
(* is_validated = TRUE, and an item whose phone fragments all fail         *)
(* validation never appears in the result.                                 *)
(***************************************************************************)
AllValidated(bs) ==
    \A k \in 1..Len(bs) :
        /\ Len(bs[k].phone_numbers) >= 1
        /\ \A j \in 1..Len(bs[k].phone_numbers) : bs[k].phone_numbers[j].is_validated
NoPhoneItems ==
    {item \in DOMAIN BusinessOfItem :
        \A j \in 1..Len(extract_phone_numbers(item.phone_text)) :
            ~validate_sri_lankan_phone(extract_phone_numbers(item.phone_text)[j]).is_valid}
C15_ValidatedPhonesOnly ==
    outcome = "returned" =>
        /\ AllValidated(ret.businesses)
        /\ \A k \in 1..Len(ret.businesses) :
              \A item \in NoPhoneItems :
                  ~(ret.businesses[k].name = item.name /\ ret.businesses[k].tag = item.tag)

\* a returned result with several businesses, from a page that also shows
\* a listing whose only number, a landline, fails validation
C15_Witness ==
    /\ outcome = "returned"
    /\ Len(ret.businesses) >= 2
    /\ \E item \in NoPhoneItems : item.phone_text = TextLandline /\ item \in Items
    /\ \E k \in 1..Len(ret.businesses) :
          ret.businesses[k].phone_numbers[1].number = TextMobileIntl

(***************************************************************************)
(* C16: for every centre and every radius_km <= max_radius_km,             *)
(* subdivide_area returns exactly one cell, equal to                       *)
(* (center_lat, center_lng, radius_km): the input unchanged, with the      *)
(* given radius and not max_radius_km.                                     *)
(***************************************************************************)
C16_SubdivideSmall ==
    (fn = "subdivide_area" /\ fn_args[3] <= fn_args[4]) =>
        /\ ~fn_value.raised
        /\ fn_value.cells = << <<fn_args[1], fn_args[2], fn_args[3]>> >>

\* a call with a radius strictly below the cell radius
C16_Witness ==
    /\ fn = "subdivide_area"
    /\ fn_args[3] > 0
    /\ fn_args[3] < fn_args[4]
    /\ Len(fn_value.cells) = 1

(***************************************************************************)
(* C17: for every centre and every radius_km > max_radius_km,              *)
(* subdivide_area returns a non-empty list of cells, each of radius        *)
(* exactly max_radius_km, one of them centred on the given centre.         *)
(***************************************************************************)
C17_SubdivideLarge ==
    (fn = "subdivide_area" /\ fn_args[3] > fn_args[4]) =>
        /\ ~fn_value.raised
        /\ fn_value.cells # <<>>
        /\ \A k \in 1..Len(fn_value.cells) : fn_value.cells[k][3] = fn_args[4]
        /\ \E k \in 1..Len(fn_value.cells) :
              fn_value.cells[k][1] = fn_args[1] /\ fn_value.cells[k][2] = fn_args[2]

(***************************************************************************)
(* C18: location resolution of a coordinate dict.  For every mapping that  *)
(* has a key lat or latitude and a key lng or longitude with numeric       *)
(* values, the value 0 included, _process_location returns a Location with *)
(* those coordinates and with the supplied city and district carried       *)
(* through unchanged; it never returns None for such an input.             *)
(***************************************************************************)
LatKeys(d) == {"lat", "latitude"} \cap DOMAIN d
LngKeys(d) == {"lng", "longitude"} \cap DOMAIN d
C18_DictResolution ==
    (/\ fn = "_process_location"
     /\ fn_args.t = "dict"
     /\ LatKeys(fn_args.d) # {}
     /\ LngKeys(fn_args.d) # {}) =>
        /\ fn_value.some
        /\ fn_value.latitude \in {fn_args.d[k] : k \in LatKeys(fn_args.d)}
        /\ fn_value.longitude \in {fn_args.d[k] : k \in LngKeys(fn_args.d)}
        /\ fn_value.city = DictGetStr(fn_args.d, "city")
        /\ fn_value.district = DictGetStr(fn_args.d, "district")

(***************************************************************************)
(* C19: location resolution of a string is an ordered, case-insensitive    *)
(* lookup.  A name equal, ignoring case, to a major city gives that city's *)
(* fixed coordinates with city set and district unset, also when the name  *)
(* is a district too (Colombo gives (6.9271, 79.8612), city Colombo); a    *)
(* name that matches only a district gives the placeholder point           *)
(* (7.5, 80.7) with district set and city unset; any other name gives      *)
(* None.                                                                   *)
(***************************************************************************)
CitiesNamed(t) ==
    {c \in {major_cities[k] : k \in 1..Len(major_cities)} : lower(c.name) = lower(t)}
DistrictsNamed(t) ==
    {d \in {districts[k] : k \in 1..Len(districts)} : lower(d) = lower(t)}
TextColombo == <<"C", "o", "l", "o", "m", "b", "o">>
C19_StringResolution ==
    (fn = "_process_location" /\ fn_args.t = "str") =>
        /\ CitiesNamed(fn_args.s) # {} =>
              \E c \in CitiesNamed(fn_args.s) :
                  fn_value = [some |-> TRUE, latitude |-> c.lat, longitude |-> c.lng,
                              city |-> SomeStr(c.name), district |-> NoneStr]
        /\ (CitiesNamed(fn_args.s) = {} /\ DistrictsNamed(fn_args.s) # {}) =>
              \E d \in DistrictsNamed(fn_args.s) :
                  fn_value = [some |-> TRUE, latitude |-> 75000, longitude |-> 807000,
                              city |-> NoneStr, district |-> SomeStr(d)]
        /\ (CitiesNamed(fn_args.s) = {} /\ DistrictsNamed(fn_args.s) = {}) =>
              ~fn_value.some
        /\ lower(fn_args.s) = lower(TextColombo) =>
              /\ fn_value.latitude = 69271
              /\ fn_value.longitude = 798612
              /\ fn_value.city = SomeStr(TextColombo)
              /\ ~fn_value.district.some

\* colombo in lower case, a name of both lists, resolved as the city
C19_Witness ==
    /\ fn = "_process_location"
    /\ fn_args.t = "str"
    /\ fn_args.s = TextColomboLower
    /\ DistrictsNamed(fn_args.s) # {}
    /\ fn_value.city = SomeStr(TextColombo)

(***************************************************************************)
(* C20: phone normalization is idempotent.  Normalizing the normalized     *)
(* form of any text (digits and '+' kept, a leading 0 rewritten to +94,    *)
(* +94 prepended when neither prefix is there) gives the same text again;  *)
(* a valid +94 number of length 12 is returned unchanged by                *)
(* validate_sri_lankan_phone and by the construction of a PhoneNumber.     *)
(***************************************************************************)
IsPlus94Twelve(t) == StartsWith(t, Plus94) /\ Len(t) = 12 /\ KeepDialable(t) = t
C20_NormalizeIdempotent ==
    /\ fn = "normalize" =>
          /\ normalize(fn_value) = fn_value
          /\ IsPlus94Twelve(fn_args) => fn_value = fn_args
    /\ fn = "PhoneNumber" =>
          /\ post_init(fn_value) = fn_value
          /\ IsPlus94Twelve(fn_args) => fn_value = fn_args
    /\ fn = "validate_sri_lankan_phone" =>
          /\ fn_value.is_valid =>
                /\ validate_sri_lankan_phone(fn_value.normalized).is_valid
                /\ validate_sri_lankan_phone(fn_value.normalized).normalized
                      = fn_value.normalized
                /\ PhoneNumber(fn_value.normalized, fn_value.is_mobile, TRUE,
                               fn_value.region).number = fn_value.normalized
          /\ IsPlus94Twelve(fn_args) =>
                /\ fn_value.is_valid
                /\ fn_value.normalized = fn_args

\* a +94 number of length 12 went through validate_sri_lankan_phone
C20_Witness ==
    /\ fn = "validate_sri_lankan_phone"
    /\ IsPlus94Twelve(fn_args)
    /\ fn_value.is_valid
    /\ fn_value.normalized = fn_args

(***************************************************************************)
(* C21: phone classification.  For every number validate_sri_lankan_phone  *)
(* reports valid, is_mobile is TRUE exactly when the two characters after  *)
(* +94 are one of 70, 71, 72, 74, 75, 76, 77, 78; region is the region     *)
(* table's name exactly when they are a key of that table and None for     *)
(* every other code; no number is both mobile and region-tagged.           *)
(***************************************************************************)
MobileCodes ==
    {<<"7", "0">>, <<"7", "1">>, <<"7", "2">>, <<"7", "4">>,
     <<"7", "5">>, <<"7", "6">>, <<"7", "7">>, <<"7", "8">>}
RegionOfCode(code) == {e.region : e \in {x \in landline_regions : x.code = code}}
C21_Classification ==
    (fn = "validate_sri_lankan_phone" /\ fn_value.is_valid) =>
        LET code == SubSeq(fn_value.normalized, 4, 5)
        IN  /\ fn_value.is_mobile <=> code \in MobileCodes
            /\ fn_value.region.some <=> RegionOfCode(code) # {}
            /\ fn_value.region.some => RegionOfCode(code) = {fn_value.region.s}
            /\ code = <<"1", "1">> => fn_value.region = SomeRegion("Colombo")
            /\ code = <<"8", "1">> => fn_value.region = SomeRegion("Kandy")
            /\ ~(fn_value.is_mobile /\ fn_value.region.some)

\* a valid number whose code 73 is neither a mobile code nor a region key
C21_Witness ==
    /\ fn = "validate_sri_lankan_phone"
    /\ fn_value.is_valid
    /\ SubSeq(fn_value.normalized, 4, 5) = <<"7", "3">>
    /\ ~fn_value.is_mobile
    /\ ~fn_value.region.some

(***************************************************************************)
(* C22: extract_phone_numbers applied to "Call us: 071 234 5678", a        *)
(* national number written with blanks between its digit groups, yields    *)
(* exactly one candidate; it normalizes to "+94712345678" and validates as *)
(* a mobile number.                                                        *)
(***************************************************************************)
C22_SpacedNumberExtracted ==
    (fn = "extract_phone_numbers" /\ fn_args = TextCallUs) =>
        /\ Len(fn_value) = 1
        /\ fn_value[1] = <<"+", "9", "4", "7", "1", "2", "3", "4", "5", "6", "7", "8">>
        /\ validate_sri_lankan_phone(fn_value[1]).is_valid
        /\ validate_sri_lankan_phone(fn_value[1]).is_mobile

(***************************************************************************)
(* validate_data.py lines 77-95: the check the validation script applies   *)
(* to a phone number of a results file.                                    *)
(***************************************************************************)
landline_prefixes ==
    {<<"1", "1">>, <<"3", "3">>, <<"3", "4">>, <<"8", "1">>, <<"6", "6">>, <<"5", "2">>,
     <<"9", "1">>, <<"4", "1">>, <<"4", "7">>, <<"2", "1">>, <<"2", "3">>, <<"2", "4">>,
     <<"6", "5">>, <<"6", "3">>, <<"2", "6">>, <<"3", "7">>, <<"3", "2">>, <<"2", "5">>,
     <<"2", "7">>, <<"5", "5">>, <<"4", "5">>, <<"3", "5">>}
validate_phone_numbers(phone) ==
    /\ \/ StartsWith(phone, Plus94) /\ Len(phone) = 12
       \/ StartsWith(phone, <<"0">>) /\ Len(phone) = 10
    /\ LET prefix == IF StartsWith(phone, Plus94)
                     THEN SubSeq(phone, 4, 5)
                     ELSE SubSeq(phone, 2, 3)
       IN  prefix \in mobile_prefixes \/ prefix \in landline_prefixes

(***************************************************************************)
(* C23: every PhoneNumber with is_validated = TRUE met the structural      *)
(* rules: its number is +94 followed by nine characters, and the two       *)
(* characters after +94 are a mobile code or a key of the region table,    *)
(* so the number passes the validation script's own check.                 *)
(***************************************************************************)
C23_ValidatedMeansStructural ==
    fn = "_extract_business_details" =>
        \A k \in 1..Len(fn_value) :
            fn_value[k].is_validated =>
                /\ StartsWith(fn_value[k].number, Plus94)
                /\ Len(fn_value[k].number) = 12
                /\ \/ SubSeq(fn_value[k].number, 4, 5) \in MobileCodes
                   \/ RegionOfCode(SubSeq(fn_value[k].number, 4, 5)) # {}
                /\ validate_phone_numbers(fn_value[k].number)

(***************************************************************************)
(* C24: first-seen order.  In multi-cell mode the businesses of the        *)
(* combined result stand in discovery order: each is the first business of *)
(* its name among the cell results taken in processing order, they are     *)
(* ordered as those first sightings are, and no name seen so far is        *)
(* missing, so a merge never reorders or removes what was already held.    *)
(***************************************************************************)
FirstSeen(name) ==
    CHOOSE k \in 1..Len(stream) :
        /\ stream[k].name = name
        /\ \A j \in 1..(k - 1) : stream[j].name # name
C24_FirstSeenOrder ==
    mode = "multi" =>
        LET held == combined_result.businesses
        IN  /\ \A k \in 1..Len(held) :
                  /\ held[k].name \in UniqueNames(stream)
                  /\ held[k] = stream[FirstSeen(held[k].name)]
            /\ \A j, k \in 1..Len(held) :
                  j < k => FirstSeen(held[j].name) < FirstSeen(held[k].name)
            /\ UniqueNames(stream) \subseteq UniqueNames(held)
            /\ outcome = "returned" => ret.businesses = held

\* a returned merge of a cell result that showed a name again between the
\* first sightings of two others
C24_Witness ==
    /\ mode = "multi"
    /\ outcome = "returned"
    /\ Len(ret.businesses) >= 3
    /\ \E j, k \in 1..Len(stream) :
          /\ j < k
          /\ stream[j].name = stream[k].name
          /\ \E m \in (k + 1)..Len(stream) : FirstSeen(stream[m].name) = m

(***************************************************************************)
(* C25: cell processing order and no retry.  In multi-cell mode            *)
(* subdivide_area returns its list of cells in row-major order of the      *)
(* lattice (latitude step outside, longitude step inside), and the cells   *)
(* passed to the collaborator are a prefix of that list: the k-th call     *)
(* carries the k-th cell's centre and radius with the original query,      *)
(* city, district and max_results, and no cell is invoked twice, also      *)
(* after a failure.                                                        *)
(***************************************************************************)
RowMajor(cells) ==
    \A j, k \in 1..Len(cells) :
        j < k => \/ cells[j][1] < cells[k][1]
                 \/ cells[j][1] = cells[k][1] /\ cells[j][2] < cells[k][2]
CellCall(k) ==
    [query |-> params.query,
     location |-> [some |-> TRUE,
                   latitude |-> subdivisions[k][1],
                   longitude |-> subdivisions[k][2],
                   city |-> params.location.city,
                   district |-> params.location.district],
     radius_km |-> subdivisions[k][3],
     max_results |-> params.max_results]
CallsFollowCells ==
    /\ Len(calls) <= Len(subdivisions)
    /\ \A k \in 1..Len(calls) : calls[k] = CellCall(k)
    /\ starts <= Len(subdivisions)
C25_CellOrderNoRetry ==
    mode = "multi" =>
        /\ exc # "NameError"
        /\ RowMajor(subdivisions)
        /\ CallsFollowCells

(***************************************************************************)
(* C26: lattice geometry of subdivide_area for radius_km > max_radius_km.  *)
(* Adjacent lattice points are one cell diameter, 2 * max_radius_km in     *)
(* degrees, apart on each axis; the lattice spans ceil(radius/max_radius)  *)
(* * 2 steps per axis; a lattice point is emitted exactly when its         *)
(* distance from the centre in degrees is at most the radius in degrees.   *)
(* Coordinates are in 1/10000 degree, Deg(km) is lines 266-270.            *)
(***************************************************************************)
Deg(km) == (km * 1800000) \div 20015
CeilDiv(a, b) == (a + b - 1) \div b
LatticeCells(center_lat, center_lng, radius_km, max_radius_km) ==
    LET half == CeilDiv(radius_km, max_radius_km)
        step == 2 * Deg(max_radius_km)
    IN  {<<center_lat + a * step, center_lng + b * step, max_radius_km>> :
            <<a, b>> \in {ab \in ((-half)..half) \X ((-half)..half) :
                            (ab[1] * step) * (ab[1] * step)
                                + (ab[2] * step) * (ab[2] * step)
                              <= Deg(radius_km) * Deg(radius_km)}}
C26_LatticeGeometry ==
    (fn = "subdivide_area" /\ fn_args[3] > fn_args[4]) =>
        /\ ~fn_value.raised
        /\ {fn_value.cells[k] : k \in 1..Len(fn_value.cells)}
              = LatticeCells(fn_args[1], fn_args[2], fn_args[3], fn_args[4])
        /\ \A j, k \in 1..Len(fn_value.cells) :
              fn_value.cells[j] = fn_value.cells[k] => j = k

(***************************************************************************)
(* C28: business names are pairwise distinct in every SearchResult that    *)
(* search returns, in single-cell mode as in multi-cell mode, also when    *)
(* the scroll loop examines the same feed item in more than one pass.      *)
(***************************************************************************)
C28_DistinctNames ==
    outcome = "returned" =>
        \A j, k \in 1..Len(ret.businesses) :
            ret.businesses[j].name = ret.businesses[k].name => j = k

(***************************************************************************)
(* C29: in multi-cell mode the combined SearchResult has success = TRUE    *)
(* and no error message after any sequence of cell outcomes, also when     *)
(* every cell invocation returned success = FALSE; a cell's success flag   *)
(* and error message are never copied into the combined result.            *)
(***************************************************************************)
C29_CombinedAlwaysSucceeds ==
    mode = "multi" =>
        /\ combined_result.success
        /\ combined_result.error_message = NoneErr
        /\ outcome = "returned" =>
               /\ ret.success
               /\ ret.error_message = NoneErr

\* the only cell failed and the combined result was returned as a success
C29_Witness ==
    /\ mode = "multi"
    /\ outcome = "returned"
    /\ Len(calls) = Len(subdivisions)
    /\ ~result.success
    /\ result.error_message.some
    /\ ret.success
    /\ ret.error_message = NoneErr

(***************************************************************************)
(* C30: for every max_results >= 1, _extract_businesses makes at least one *)
(* extraction pass over the feed when the feed is present, makes at most   *)
(* min(20, max_results // 5) passes, stops as soon as a pass adds no       *)
(* business or the count reaches max_results, and returns at most          *)
(* max_results businesses.                                                 *)
(***************************************************************************)
C30_ExtractionPasses ==
    (pc \in {"extract", "extracted"} /\ result.parameters.max_results >= 1) =>
        LET m == result.parameters.max_results
            most == Min(20, m \div 5)
        IN  \* before any pass the loop is entered, never skipped
            /\ (pc = "extract" /\ scroll = 0) => scroll < most
            \* passes made: scroll of them were followed by a scroll, plus
            \* the one that ended the loop
            /\ pc = "extract" => scroll <= most
            /\ pc = "extracted" => scroll + 1 <= most
            \* the loop goes on only after a pass that added something and
            \* left the count under max_results
            /\ (pc = "extract" /\ scroll >= 1) =>
                   /\ businesses # <<>>
                   /\ Len(businesses) < m
            /\ Len(SlicePrefix(businesses, m)) <= m

====
